---- MODULE Spec2Model ----
(***************************************************************************)
(* Lab_Software: the two LabOne example scripts (connect/configure and     *)
(* AWG) and the WhiteLight GUI shell, as one state machine.  A behaviour   *)
(* runs exactly one of the three programs, chosen in Init; the data        *)
(* server, the instrument and the user are the environment, and every      *)
(* value they hand to the program is drawn from a small set.               *)
(***************************************************************************)
EXTENDS Integers, Naturals, Sequences, FiniteSets, TLC

VARIABLES
    program,        \* which entry point this behaviour runs
    pc,             \* position of the running script ("gui": the event loop)
    log,            \* calls issued to the data server / modules, in order
    raisedAt,       \* step at which an exception ended the script, or "none"
    errorKind,      \* class of that exception
    errorMsg,       \* message of that exception
    props,          \* discovery properties of the device (create_api_session)
    amplitude,      \* connect/configure: the amplitude argument, in mV
    devSample,      \* connect/configure: what daq.getSample returned
    sample,         \* connect/configure: the dict being returned
    ret,            \* value returned by run_example ("none" until it returns)
    compilerStatus, \* AWG: the server's awgModule/compiler/status node
    statusString,   \* AWG: the server's awgModule/compiler/statusstring node
    statusChanges,  \* AWG: how often the server has changed the status so far
    readAt,         \* AWG: per query site, the status value last read there
    stdout,         \* AWG: what the script printed about the compilation
    uploadI,        \* AWG: the counter i of the upload wait loop
    local_timeout,  \* AWG: the scope wait budget, in tenths of a second
    scopeIters,     \* AWG: iterations of the scope wait loop so far
    scopeProgress,  \* AWG: scopeModule.progress()[0] as last read, in percent
    dataRead,       \* AWG: what scopeModule.read returned
    coeff,          \* AWG: norm_correlation_coeff
    uploadProgress, \* AWG: awgModule/progress as last read by the loop test, in percent
    epochAt,        \* AWG: per query site, the value of statusChanges at its last read
    ccbox,          \* GUI: CCBox.get()
    scbox,          \* GUI: SCBox.get()
    grid,           \* GUI: per panel, its place in the grid (<<>>: not shown)
    labelOf,        \* GUI: per panel, the combobox that is its label widget
    dialog,         \* GUI: the dialog the last call showed ("none": no dialog)
    vendorCalls,    \* GUI: calls of utils.save_settings / utils.load_settings
    callbackError,  \* GUI: the exception that ended the last call ("none")
    lastCall,       \* GUI: the last call of a handler and its arguments
    connected,      \* GUI: per connection panel, its connected flag
    refreshTimers,  \* GUI: the connection panels with a Refresh pending (app.after)
    appPI_Data,     \* GUI: app.PI_Data
    appZi_Data,     \* GUI: app.Zi_Data
    lastRefresh     \* GUI: the last dispatch of the Refresh callback and what it did

\* Python's None, for variables that otherwise hold records.
None == [none |-> TRUE]

ccVars == <<amplitude, devSample, sample>>
awgVars == <<compilerStatus, statusString, statusChanges, readAt, stdout, uploadI,
             local_timeout, scopeIters, scopeProgress, dataRead, coeff,
             uploadProgress, epochAt>>
refreshVars == <<connected, refreshTimers, appPI_Data, appZi_Data, lastRefresh>>
guiVars == <<ccbox, scbox, grid, labelOf, dialog, vendorCalls, callbackError, lastCall,
             refreshVars>>
vars == <<program, pc, log, raisedAt, errorKind, errorMsg, props, ret, ccVars, awgVars,
          guiVars>>

(***************************************************************************)
(* Bounds of the model.                                                    *)
(***************************************************************************)
\* getSample's x and y components range over -MaxXY..MaxXY
MaxXY == 2

(***************************************************************************)
(* Calls on the session, as they appear in the log.                        *)
(***************************************************************************)
\* daq.set(list) / daq.setInt / daq.setDouble / daq.vectorWrite
Write(settings) == [op |-> "write", args |-> settings]
\* daq.sync()
Sync == [op |-> "sync", args |-> <<>>]
\* time.sleep outside a polling loop
Sleep == [op |-> "sleep", args |-> <<>>]
\* daq.getSample(path)
GetSample(path) == [op |-> "getSample", args |-> <<path>>]

\* Outcomes of zhinst.utils.create_api_session: a session, or one of its two
\* errors (device not discoverable; device type/option requirement not met).
SessionOutcomes == {"ok", "not_discoverable", "requirement_not_met"}
\* props['options'] holds 'IA' or not; props['devicetype'] starts with HF2 or not
PropsValues == [ia : BOOLEAN, hf2 : BOOLEAN]

\* An exception leaves run_example: nothing of the script runs after it.
Raise(at, kind, msg) ==
    /\ pc' = "raised"
    /\ raisedAt' = at
    /\ errorKind' = kind
    /\ errorMsg' = msg

NoRaise == UNCHANGED <<raisedAt, errorKind, errorMsg>>

(***************************************************************************)
(* example_connect_config.run_example                                      *)
(***************************************************************************)
CC_ErrMsg == "This example only supports instruments with demodulators."

\* CC_CreateSession with the error of create_api_session caught and ignored
CC_CreateSession_SwallowsError ==
    /\ program = "connect_config" /\ pc = "cc_create_session"
    /\ \E outcome \in SessionOutcomes, p \in PropsValues :
        /\ props' = p
        /\ pc' = "cc_base_config"
        /\ raisedAt' = IF outcome = "ok" THEN raisedAt ELSE "cc_create_session"
        /\ UNCHANGED <<errorKind, errorMsg>>
    /\ UNCHANGED <<program, log, ret, ccVars, awgVars, guiVars>>

\* lines 64-68: create_api_session either returns (daq, device, props) or raises
CC_CreateSession ==
    /\ program = "connect_config" /\ pc = "cc_create_session"
    /\ \E outcome \in SessionOutcomes :
        IF outcome = "ok"
        THEN /\ \E p \in PropsValues : props' = p
             /\ pc' = "cc_base_config"
             /\ NoRaise
        ELSE /\ Raise("cc_create_session",
                      IF outcome = "not_discoverable" THEN "RuntimeError" ELSE "Exception",
                      IF outcome = "not_discoverable" THEN "not discoverable" ELSE CC_ErrMsg)
             /\ UNCHANGED props
    /\ UNCHANGED <<program, log, ret, ccVars, awgVars, guiVars>>

\* lines 71-76: the base configuration table
CC_GeneralSetting(p) ==
    << <<"demods/*/enable", 0>>, <<"demods/*/trigger", 0>>,
       <<"sigouts/*/enables/*", 0>>, <<"scopes/*/enable", 0>> >>
    \o (IF p.ia THEN << <<"imps/*/enable", 0>> >> ELSE <<>>)

\* lines 77-81: daq.set(general_setting); daq.sync()
CC_BaseConfig ==
    /\ program = "connect_config" /\ pc = "cc_base_config"
    /\ log' = log \o <<Write(CC_GeneralSetting(props)), Sync>>
    /\ pc' = "cc_exp_config"
    /\ NoRaise
    /\ UNCHANGED <<program, props, ret, ccVars, awgVars, guiVars>>

\* lines 87-113: the experiment table (rates in Hz, time constant in ns,
\* ranges and amplitudes in mV); out_mixer_channel comes from the vendor's
\* default_output_mixer_channel(props) and is written "m".
CC_ExpSetting(p, amp) ==
    << <<"sigins/0/ac", 0>>, <<"sigins/0/range", 2 * amp>>,
       <<"demods/0/enable", 1>>, <<"demods/0/rate", 10000>>,
       <<"demods/0/adcselect", 0>>, <<"demods/0/order", 4>>,
       <<"demods/0/timeconstant", 1000>>, <<"demods/0/oscselect", 0>>,
       <<"demods/0/harmonic", 1>>, <<"oscs/0/freq", 400000>>,
       <<"sigouts/0/on", 1>>, <<"sigouts/0/enables/m", 1>>,
       <<"sigouts/0/range", 1000>>, <<"sigouts/0/amplitudes/m", amp>> >>
    \o (IF p.hf2 THEN << <<"sigins/0/diff", 0>>, <<"sigouts/0/add", 0>> >> ELSE <<>>)

\* line 114: daq.set(exp_setting)
CC_ExpConfig ==
    /\ program = "connect_config" /\ pc = "cc_exp_config"
    /\ log' = log \o <<Write(CC_ExpSetting(props, amplitude))>>
    /\ pc' = "cc_settle"
    /\ NoRaise
    /\ UNCHANGED <<program, props, ret, ccVars, awgVars, guiVars>>

\* CC_Settle with the sync of line 123 left out
CC_Settle_NoSync ==
    /\ program = "connect_config" /\ pc = "cc_settle"
    /\ log' = log \o <<Sleep>>
    /\ pc' = "cc_get_sample"
    /\ NoRaise
    /\ UNCHANGED <<program, props, ret, ccVars, awgVars, guiVars>>

\* lines 117-123: time.sleep(10*time_constant); daq.sync()
CC_Settle ==
    /\ program = "connect_config" /\ pc = "cc_settle"
    /\ log' = log \o <<Sleep, Sync>>
    /\ pc' = "cc_get_sample"
    /\ NoRaise
    /\ UNCHANGED <<program, props, ret, ccVars, awgVars, guiVars>>

\* line 128: sample = daq.getSample(...); the device decides x and y
CC_GetSample ==
    /\ program = "connect_config" /\ pc = "cc_get_sample"
    /\ \E x \in -MaxXY..MaxXY, y \in -MaxXY..MaxXY :
        /\ devSample' = [x |-> x, y |-> y]
        /\ sample' = [x |-> x, y |-> y]
    /\ log' = log \o <<GetSample("demods/0/sample")>>
    /\ pc' = "cc_derive"
    /\ NoRaise
    /\ UNCHANGED <<program, props, ret, amplitude, awgVars, guiVars>>

(***************************************************************************)
(* Complex arithmetic, as numpy does it on sample['x'] + 1j*sample['y'].   *)
(* A magnitude is kept exactly by its square, an angle in (-pi, pi] by the *)
(* primitive direction vector <<sin-part, cos-part>> that has that angle.  *)
(***************************************************************************)
Complex(re, im) == [re |-> re, im |-> im]
CAdd(a, b) == Complex(a.re + b.re, a.im + b.im)
CMul(a, b) == Complex(a.re * b.re - a.im * b.im, a.re * b.im + a.im * b.re)
\* the literal 1j
Imag1j == Complex(0, 1)

AbsInt(n) == IF n < 0 THEN -n ELSE n

RECURSIVE Gcd(_, _)
Gcd(a, b) == IF b = 0 THEN a ELSE Gcd(b, a % b)

\* math atan2(y, x): the angle of the direction (x, y); atan2(0, 0) = 0,
\* the angle of the direction (1, 0)
Arctan2(y, x) ==
    IF x = 0 /\ y = 0 THEN <<0, 1>>
    ELSE LET g == Gcd(AbsInt(y), AbsInt(x)) IN <<y \div g, x \div g>>

\* np.abs of a complex number: sqrt(re^2 + im^2), kept as its square
NpAbs(z) == [sq |-> z.re * z.re + z.im * z.im]
\* np.angle with the arguments of arctan2 exchanged
NpAngle_Swapped(z) == Arctan2(z.re, z.im)

\* np.angle of a complex number: arctan2(z.imag, z.real)
NpAngle(z) == Arctan2(z.im, z.re)

\* the expression  sample['x'] + 1j*sample['y']
SampleAsComplex(s) == CAdd(Complex(s.x, 0), CMul(Imag1j, Complex(s.y, 0)))

\* lines 131-134: add R and phi to the dict, print, return it
CC_Derive ==
    /\ program = "connect_config" /\ pc = "cc_derive"
    /\ sample' = [x |-> sample.x, y |-> sample.y,
                  R |-> NpAbs(SampleAsComplex(sample)),
                  phi |-> NpAngle(SampleAsComplex(sample))]
    /\ ret' = "sample"
    /\ pc' = "returned"
    /\ NoRaise
    /\ UNCHANGED <<program, log, props, amplitude, devSample, awgVars, guiVars>>

NextCC ==
    \/ CC_CreateSession
    \/ CC_BaseConfig
    \/ CC_ExpConfig
    \/ CC_Settle
    \/ CC_GetSample
    \/ CC_Derive

(***************************************************************************)
(* example_awg.run_example                                                 *)
(***************************************************************************)
\* awgModule.* and scopeModule.* calls, as they appear in the log
Module(m, call, arg) == [op |-> m, args |-> <<call, arg>>]
\* np.savetxt(csv_file, waveform_0)
SaveTxt(file) == [op |-> "savetxt", args |-> <<file>>]

AWG_ErrMsg ==
    "This example can only be ran on either a UHFAWG or a UHF with the AWG option enabled."

\* awgModule/compiler/status: -1 in progress, 0 success, 1 failure, 2 success with warnings
StatusValues == {-1, 0, 1, 2}
\* what awgModule/compiler/statusstring may hold
StatusStrings == {"line 7: syntax error", "line 3: unused wave"}
\* a progress fraction as read, in percent (1.0 is 100)
ProgressValues == {0, 50, 100}
\* norm_correlation_coeff in hundredths, or NaN (0/0 for an all-zero capture)
CoeffValues == [nan : {FALSE}, val : {0, 94, 95, 96}] \cup {[nan |-> TRUE, val |-> 0]}

\* line 275: local_timeout = 2.0, in tenths of a second
LocalTimeoutTenths == 20
\* line 328: the threshold 0.95, in hundredths
CorrThreshold == 95

\* how often the server changes the compiler status in one run
MaxStatusChanges == 2
\* i of the upload wait loop is counted up to here and then stays
MaxUploadPolls == 1

CompilePcs == {"awg_compile_wait", "awg_failure_test", "awg_success_test", "awg_warning_test"}

\* The data server finishes (or, for another client, restarts) a compilation
\* at any moment between two queries of the script.
AWG_ServerSetsStatus ==
    /\ program = "awg" /\ pc \in CompilePcs
    /\ statusChanges < MaxStatusChanges
    /\ \E s \in StatusValues \ {compilerStatus}, str \in StatusStrings :
        /\ compilerStatus' = s
        /\ statusString' = str
    /\ statusChanges' = statusChanges + 1
    /\ UNCHANGED <<program, pc, log, raisedAt, errorKind, errorMsg, props, ret, ccVars, guiVars,
                   readAt, stdout, uploadI, local_timeout, scopeIters, scopeProgress,
                   dataRead, coeff, uploadProgress, epochAt>>

\* lines 58-65: create_api_session(required_devtype='UHF', required_options=['AWG'])
AWG_CreateSession ==
    /\ program = "awg" /\ pc = "awg_create_session"
    /\ \E outcome \in SessionOutcomes :
        IF outcome = "ok"
        THEN /\ \E ia \in BOOLEAN : props' = [ia |-> ia, hf2 |-> FALSE]
             /\ pc' = "awg_base_config"
             /\ NoRaise
        ELSE /\ Raise("awg_create_session",
                      IF outcome = "not_discoverable" THEN "RuntimeError" ELSE "Exception",
                      IF outcome = "not_discoverable" THEN "not discoverable" ELSE AWG_ErrMsg)
             /\ UNCHANGED props
    /\ UNCHANGED <<program, log, ret, ccVars, awgVars, guiVars>>

\* lines 68-73: the base configuration table
AWG_GeneralSetting(p) ==
    << <<"demods/*/enable", 0>>, <<"demods/*/trigger", 0>>,
       <<"sigouts/*/enables/*", 0>>, <<"scopes/*/enable", 0>> >>
    \o (IF p.ia THEN << <<"imps/*/enable", 0>> >> ELSE <<>>)

\* lines 74-79: daq.set(general_setting); daq.sync()
AWG_BaseConfig ==
    /\ program = "awg" /\ pc = "awg_base_config"
    /\ log' = log \o <<Write(AWG_GeneralSetting(props)), Sync>>
    /\ pc' = "awg_exp_config"
    /\ NoRaise
    /\ UNCHANGED <<program, props, ret, ccVars, awgVars, guiVars>>

\* lines 85-107: the experiment table (frequency in Hz, ranges and amplitudes in V)
AWG_ExpSetting ==
    << <<"sigins/0/imp50", 1>>, <<"sigins/0/ac", 0>>, <<"sigins/0/diff", 0>>,
       <<"sigins/0/range", 1>>, <<"oscs/0/freq", 1000000>>, <<"sigouts/0/on", 1>>,
       <<"sigouts/0/range", 1>>, <<"sigouts/0/enables/3", 1>>,
       <<"sigouts/0/amplitudes/*", 0>>, <<"awgs/0/outputs/0/amplitude", 1>>,
       <<"awgs/0/outputs/0/mode", 0>>, <<"awgs/0/time", 0>>, <<"awgs/0/userregs/0", 0>> >>

\* lines 108-110: daq.set(exp_setting); daq.sync()
AWG_ExpConfig ==
    /\ program = "awg" /\ pc = "awg_exp_config"
    /\ log' = log \o <<Write(AWG_ExpSetting), Sync>>
    /\ pc' = "awg_module_setup"
    /\ NoRaise
    /\ UNCHANGED <<program, props, ret, ccVars, awgVars, guiVars>>

\* lines 161-175: create the AWG module, find its wave directory (raise if it
\* is no directory), save wave0.csv
AWG_ModuleSetup ==
    /\ program = "awg" /\ pc = "awg_module_setup"
    /\ \E isdir \in BOOLEAN :
        LET opened == <<Module("awgModule", "set", "awgModule/device"),
                        Module("awgModule", "execute", ""),
                        Module("awgModule", "getString", "awgModule/directory")>>
        IN IF isdir
           THEN /\ log' = log \o opened \o <<SaveTxt("wave0.csv")>>
                /\ pc' = "awg_submit"
                /\ NoRaise
           ELSE /\ log' = log \o opened
                /\ Raise("awg_module_setup", "Exception", "AWG module wave directory")
    /\ UNCHANGED <<program, props, ret, ccVars, awgVars, guiVars>>

\* line 178: awgModule.set('awgModule/compiler/sourcestring', awg_program);
\* compilation starts automatically
AWG_SubmitProgram ==
    /\ program = "awg" /\ pc = "awg_submit"
    /\ log' = log \o <<Module("awgModule", "set", "awgModule/compiler/sourcestring")>>
    /\ pc' = "awg_compile_wait"
    /\ NoRaise
    /\ UNCHANGED <<program, props, ret, ccVars, awgVars, guiVars>>

\* AWG_CompileWaitPoll as an if: one poll, then on to the tests
AWG_CompileWaitPoll_ExitsOnFirstPoll ==
    /\ program = "awg" /\ pc = "awg_compile_wait"
    /\ readAt' = [readAt EXCEPT !.loop = {compilerStatus}]
    /\ epochAt' = [epochAt EXCEPT !.loop = statusChanges]
    /\ pc' = "awg_failure_test"
    /\ NoRaise
    /\ UNCHANGED <<program, log, props, ret, ccVars, guiVars, compilerStatus, statusString,
                   statusChanges, uploadProgress, stdout, uploadI, local_timeout, scopeIters,
                   scopeProgress, dataRead, coeff>>

\* lines 181-182: while status == -1: time.sleep(0.1)
AWG_CompileWaitPoll ==
    /\ program = "awg" /\ pc = "awg_compile_wait"
    /\ readAt' = [readAt EXCEPT !.loop = {compilerStatus}]
    /\ epochAt' = [epochAt EXCEPT !.loop = statusChanges]
    /\ pc' = IF compilerStatus = -1 THEN "awg_compile_wait" ELSE "awg_failure_test"
    /\ NoRaise
    /\ UNCHANGED <<program, log, props, ret, ccVars, guiVars, compilerStatus, statusString,
                   statusChanges, uploadProgress, stdout, uploadI, local_timeout, scopeIters,
                   scopeProgress, dataRead, coeff>>

\* AWG_FailureTest testing for the warning sentinel 2 instead of 1
AWG_FailureTest_WrongSentinel ==
    /\ program = "awg" /\ pc = "awg_failure_test"
    /\ readAt' = [readAt EXCEPT !.fail = {compilerStatus}]
    /\ epochAt' = [epochAt EXCEPT !.fail = statusChanges]
    /\ IF compilerStatus = 2
       THEN Raise("awg_failure_test", "Exception", statusString)
       ELSE pc' = "awg_success_test" /\ NoRaise
    /\ UNCHANGED <<program, log, props, ret, ccVars, guiVars, compilerStatus, statusString,
                   statusChanges, uploadProgress, stdout, uploadI, local_timeout, scopeIters,
                   scopeProgress, dataRead, coeff>>

\* lines 184-187: if status == 1: raise Exception(statusstring)
AWG_FailureTest ==
    /\ program = "awg" /\ pc = "awg_failure_test"
    /\ readAt' = [readAt EXCEPT !.fail = {compilerStatus}]
    /\ epochAt' = [epochAt EXCEPT !.fail = statusChanges]
    /\ IF compilerStatus = 1
       THEN Raise("awg_failure_test", "Exception", statusString)
       ELSE pc' = "awg_success_test" /\ NoRaise
    /\ UNCHANGED <<program, log, props, ret, ccVars, guiVars, compilerStatus, statusString,
                   statusChanges, uploadProgress, stdout, uploadI, local_timeout, scopeIters,
                   scopeProgress, dataRead, coeff>>

\* lines 188-189: if status == 0: print(...)
AWG_SuccessTest ==
    /\ program = "awg" /\ pc = "awg_success_test"
    /\ readAt' = [readAt EXCEPT !.succ = {compilerStatus}]
    /\ epochAt' = [epochAt EXCEPT !.succ = statusChanges]
    /\ stdout' = IF compilerStatus = 0
                 THEN stdout \o <<"Compilation successful with no warnings">>
                 ELSE stdout
    /\ pc' = "awg_warning_test"
    /\ NoRaise
    /\ UNCHANGED <<program, log, props, ret, ccVars, guiVars, compilerStatus, statusString,
                   statusChanges, uploadProgress, uploadI, local_timeout, scopeIters,
                   scopeProgress, dataRead, coeff>>

\* lines 190-195: if status == 2: print(...); print("Compiler warning: " + statusstring);
\* i = 0
AWG_WarningTest ==
    /\ program = "awg" /\ pc = "awg_warning_test"
    /\ readAt' = [readAt EXCEPT !.warn = {compilerStatus}]
    /\ epochAt' = [epochAt EXCEPT !.warn = statusChanges]
    /\ stdout' = IF compilerStatus = 2
                 THEN stdout \o <<"Compilation successful with warnings",
                                  "Compiler warning: ", statusString>>
                 ELSE stdout
    /\ uploadI' = 0
    /\ pc' = "awg_upload_wait"
    /\ NoRaise
    /\ UNCHANGED <<program, log, props, ret, ccVars, guiVars, compilerStatus, statusString,
                   statusChanges, uploadProgress, local_timeout, scopeIters, scopeProgress, dataRead, coeff>>

Min(a, b) == IF a < b THEN a ELSE b

\* AWG_UploadWaitPoll with a poll budget: the loop is left after MaxUploadPolls polls
AWG_UploadWaitPoll_WithTimeout ==
    /\ program = "awg" /\ pc = "awg_upload_wait"
    /\ \E p \in ProgressValues :
        /\ uploadProgress' = p
        /\ IF p < 100 /\ uploadI < MaxUploadPolls
           THEN /\ uploadI' = uploadI + 1
                /\ pc' = "awg_upload_wait"
           ELSE /\ uploadI' = uploadI
                /\ pc' = "awg_replace_waveform"
    /\ NoRaise
    /\ UNCHANGED <<program, log, props, ret, ccVars, guiVars, compilerStatus, statusString,
                   statusChanges, epochAt, readAt, stdout, local_timeout, scopeIters,
                   scopeProgress, dataRead, coeff>>

\* lines 196-199: while progress < 1.0: print(i, progress); time.sleep(0.5); i += 1
\* (no timeout; i is only printed, and is counted up to MaxUploadPolls)
AWG_UploadWaitPoll ==
    /\ program = "awg" /\ pc = "awg_upload_wait"
    /\ \E p \in ProgressValues :
        /\ uploadProgress' = p
        /\ IF p < 100
           THEN /\ uploadI' = Min(uploadI + 1, MaxUploadPolls)
                /\ pc' = "awg_upload_wait"
           ELSE /\ uploadI' = uploadI
                /\ pc' = "awg_replace_waveform"
    /\ NoRaise
    /\ UNCHANGED <<program, log, props, ret, ccVars, guiVars, compilerStatus, statusString,
                   statusChanges, epochAt, readAt, stdout, local_timeout, scopeIters,
                   scopeProgress, dataRead, coeff>>

\* lines 207-213: select waveform slot 2, sync, overwrite it
AWG_ReplaceWaveform ==
    /\ program = "awg" /\ pc = "awg_replace_waveform"
    /\ log' = log \o <<Write(<< <<"awgs/0/waveform/index", 2>> >>), Sync,
                       Write(<< <<"awgs/0/waveform/data", 0>> >>)>>
    /\ pc' = "awg_configure_scope"
    /\ NoRaise
    /\ UNCHANGED <<program, props, ret, ccVars, awgVars, guiVars>>

\* lines 218-252: the scope settings, one setInt/setDouble each (hysteresis,
\* hold-off in thousandths)
AWG_ScopeSettings ==
    << <<"scopes/0/channels/0/inputselect", 0>>, <<"scopes/0/time", 0>>,
       <<"scopes/0/trigenable", 1>>, <<"scopes/0/enable", 0>>,
       <<"scopes/0/length", 16836>>, <<"scopes/0/trigenable", 1>>,
       <<"scopes/0/trigchannel", 192>>, <<"scopes/0/trigslope", 1>>,
       <<"scopes/0/trighysteresis/mode", 0>>, <<"scopes/0/trighysteresis/relative", 25>>,
       <<"scopes/0/trigdelay", 0>>, <<"scopes/0/trigholdoff", 25>> >>

AWG_ConfigureScope ==
    /\ program = "awg" /\ pc = "awg_configure_scope"
    /\ log' = log \o [k \in 1..Len(AWG_ScopeSettings) |-> Write(<<AWG_ScopeSettings[k]>>)]
    /\ pc' = "awg_scope_module"
    /\ NoRaise
    /\ UNCHANGED <<program, props, ret, ccVars, awgVars, guiVars>>

\* lines 255-260: the scope module, and single-shot mode of the scope
AWG_SetupScopeModule ==
    /\ program = "awg" /\ pc = "awg_scope_module"
    /\ log' = log \o <<Module("scopeModule", "set", "scopeModule/mode"),
                       Module("scopeModule", "subscribe", "scopes/0/wave"),
                       Write(<< <<"scopes/0/single", 1>> >>),
                       Module("scopeModule", "execute", "")>>
    /\ pc' = "awg_start_awg"
    /\ NoRaise
    /\ UNCHANGED <<program, props, ret, ccVars, awgVars, guiVars>>

\* lines 263-265: start the AWG in single-shot mode, sync
AWG_StartAWG ==
    /\ program = "awg" /\ pc = "awg_start_awg"
    /\ log' = log \o <<Write(<< <<"awgs/0/single", 1>>, <<"awgs/0/enable", 1>> >>), Sync>>
    /\ pc' = "awg_start_scope"
    /\ NoRaise
    /\ UNCHANGED <<program, props, ret, ccVars, awgVars, guiVars>>

\* AWG_StartScope with the enabling write left out
AWG_StartScope_NoEnable ==
    /\ program = "awg" /\ pc = "awg_start_scope"
    /\ log' = log \o <<Sync, Sleep>>
    /\ pc' = "awg_release_trigger"
    /\ NoRaise
    /\ UNCHANGED <<program, props, ret, ccVars, awgVars, guiVars>>

\* lines 268-270: enable the scope, sync, sleep
AWG_StartScope ==
    /\ program = "awg" /\ pc = "awg_start_scope"
    /\ log' = log \o <<Write(<< <<"scopes/0/enable", 1>> >>), Sync, Sleep>>
    /\ pc' = "awg_release_trigger"
    /\ NoRaise
    /\ UNCHANGED <<program, props, ret, ccVars, awgVars, guiVars>>

\* lines 272-275: user register 0 := 1 releases the AWG program; local_timeout = 2.0
AWG_ReleaseTrigger ==
    /\ program = "awg" /\ pc = "awg_release_trigger"
    /\ log' = log \o <<Write(<< <<"awgs/0/userregs/0", 1>> >>)>>
    /\ local_timeout' = LocalTimeoutTenths
    /\ pc' = "awg_scope_wait"
    /\ NoRaise
    /\ UNCHANGED <<program, props, ret, ccVars, guiVars, compilerStatus, statusString,
                   statusChanges, uploadProgress, epochAt, readAt, stdout, uploadI, scopeIters, scopeProgress,
                   dataRead, coeff>>

\* AWG_ScopeWaitPoll with the budget left out of the loop test
AWG_ScopeWaitPoll_NoTimeout ==
    /\ program = "awg" /\ pc = "awg_scope_wait"
    /\ \E p \in ProgressValues :
        /\ scopeProgress' = p
        /\ IF p < 100
           THEN /\ local_timeout' = local_timeout - 1
                /\ scopeIters' = scopeIters + 1
                /\ pc' = "awg_scope_wait"
           ELSE /\ UNCHANGED <<local_timeout, scopeIters>>
                /\ pc' = "awg_disable_scope"
    /\ NoRaise
    /\ UNCHANGED <<program, log, props, ret, ccVars, guiVars, compilerStatus, statusString,
                   statusChanges, uploadProgress, epochAt, readAt, stdout, uploadI, dataRead, coeff>>

\* lines 276-278: while progress < 1.0 and local_timeout > 0: sleep; local_timeout -= 0.1
\* (in doubles the 20th subtraction leaves -6.4e-16, so the test fails there as
\* it does for the exact value 0)
AWG_ScopeWaitPoll ==
    /\ program = "awg" /\ pc = "awg_scope_wait"
    /\ \E p \in ProgressValues :
        /\ scopeProgress' = p
        /\ IF p < 100 /\ local_timeout > 0
           THEN /\ local_timeout' = local_timeout - 1
                /\ scopeIters' = scopeIters + 1
                /\ pc' = "awg_scope_wait"
           ELSE /\ UNCHANGED <<local_timeout, scopeIters>>
                /\ pc' = "awg_disable_scope"
    /\ NoRaise
    /\ UNCHANGED <<program, log, props, ret, ccVars, guiVars, compilerStatus, statusString,
                   statusChanges, uploadProgress, epochAt, readAt, stdout, uploadI, dataRead, coeff>>

\* line 281: daq.setInt(scopes/0/enable, 0)
AWG_DisableScope ==
    /\ program = "awg" /\ pc = "awg_disable_scope"
    /\ log' = log \o <<Write(<< <<"scopes/0/enable", 0>> >>)>>
    /\ pc' = "awg_read_scope"
    /\ NoRaise
    /\ UNCHANGED <<program, props, ret, ccVars, awgVars, guiVars>>

\* lines 283-286: data_read = scopeModule.read(True); assert the wave path is in it
AWG_ReadScope ==
    /\ program = "awg" /\ pc = "awg_read_scope"
    /\ log' = log \o <<Module("scopeModule", "read", "True")>>
    /\ \E hasPath \in BOOLEAN, enabled \in BOOLEAN :
        /\ dataRead' = [hasPath |-> hasPath, channelEnabled |-> hasPath /\ enabled]
        /\ IF hasPath
           THEN pc' = "awg_correlate" /\ NoRaise
           ELSE Raise("awg_read_scope", "AssertionError", "The subscribed data was returned")
    /\ UNCHANGED <<program, props, ret, ccVars, guiVars, compilerStatus, statusString,
                   statusChanges, uploadProgress, epochAt, readAt, stdout, uploadI, local_timeout, scopeIters,
                   scopeProgress, coeff>>

\* lines 288-302 and 327: y_measured is bound only for an enabled channel
\* (NameError otherwise); the coefficient follows from the captured wave
AWG_Correlate ==
    /\ program = "awg" /\ pc = "awg_correlate"
    /\ IF dataRead.channelEnabled
       THEN /\ \E c \in CoeffValues : coeff' = c
            /\ pc' = "awg_check_correlation"
            /\ NoRaise
       ELSE /\ Raise("awg_correlate", "NameError", "y_measured")
            /\ UNCHANGED coeff
    /\ UNCHANGED <<program, log, props, ret, ccVars, guiVars, compilerStatus, statusString,
                   statusChanges, uploadProgress, epochAt, readAt, stdout, uploadI, local_timeout, scopeIters,
                   scopeProgress, dataRead>>

\* the comparison with >= in place of >
CorrelationPasses_AtLeast(c) == ~c.nan /\ c.val >= CorrThreshold

\* the comparison  norm_correlation_coeff > 0.95  (false for NaN)
CorrelationPasses(c) == ~c.nan /\ c.val > CorrThreshold

\* lines 328-333: assert norm_correlation_coeff > 0.95; print; return data_read
AWG_CheckCorrelation ==
    /\ program = "awg" /\ pc = "awg_check_correlation"
    /\ IF CorrelationPasses(coeff)
       THEN /\ ret' = "data_read"
            /\ pc' = "returned"
            /\ NoRaise
       ELSE /\ Raise("awg_check_correlation", "AssertionError", "Detected a disagreement")
            /\ UNCHANGED ret
    /\ UNCHANGED <<program, log, props, ccVars, awgVars, guiVars>>

NextAWG ==
    \/ AWG_ServerSetsStatus
    \/ AWG_CreateSession
    \/ AWG_BaseConfig
    \/ AWG_ExpConfig
    \/ AWG_ModuleSetup
    \/ AWG_SubmitProgram
    \/ AWG_CompileWaitPoll
    \/ AWG_FailureTest
    \/ AWG_SuccessTest
    \/ AWG_WarningTest
    \/ AWG_UploadWaitPoll
    \/ AWG_ReplaceWaveform
    \/ AWG_ConfigureScope
    \/ AWG_SetupScopeModule
    \/ AWG_StartAWG
    \/ AWG_StartScope
    \/ AWG_ReleaseTrigger
    \/ AWG_ScopeWaitPoll
    \/ AWG_DisableScope
    \/ AWG_ReadScope
    \/ AWG_Correlate
    \/ AWG_CheckCorrelation

(***************************************************************************)
(* WhiteLight.py: the White_Light_Inteferometer window                     *)
(***************************************************************************)
\* line 68 and line 73: the values of the two comboboxes
CCBoxValues == <<"PI Module Connection", "ZI Module connection">>
SCBoxValues == <<"PI Module Settings", "ZI Module Settings">>

\* lines 82-85: the keys of Flist1 (self.frame, self.ZiFrame) and of Flist2
\* (self.PI_Control, self.ZI_Control); a panel is named by its key
Flist1 == {"PI Module Connection", "ZI Module connection"}
Flist2 == {"PI Module Settings", "ZI Module Settings"}
Panels == Flist1 \cup Flist2

\* a panel's place in the grid of Mainframe: <<row, column>>, or <<>> when it
\* is not gridded (never gridded, or grid_forget)
Hidden == <<>>

\* Switch_Frame without its first loop (no grid_forget)
Switch_Frame_Grid_NoForget(lst, Current, rw, clm, g) ==
    [p \in Panels |-> IF p \in lst /\ p = Current THEN <<rw, clm>> ELSE g[p]]

\* lines 40-50: Switch_Frame(lst, Box, rw, clm), with Current = Box.get():
\* forget every panel of lst, then grid the one whose key is Current and make
\* Box its label widget.  g is the grid state, l the label widget of each panel.
Switch_Frame_Grid(lst, Current, rw, clm, g) ==
    LET forgotten == [p \in Panels |-> IF p \in lst THEN Hidden ELSE g[p]]
    IN [p \in Panels |-> IF p \in lst /\ p = Current THEN <<rw, clm>> ELSE forgotten[p]]

Switch_Frame_Label(lst, Current, Box, l) ==
    [p \in Panels |-> IF p \in lst /\ p = Current THEN Box ELSE l[p]]

\* the combobox a label names after the panels were built: none
NoLabels == [p \in Panels |-> "none"]
NoGrid == [p \in Panels |-> Hidden]

\* <<ComboboxSelected>> on CCBox (line 86): the user picks a value of the
\* list, the handler runs Switch_Frame(Flist1, CCBox, 0, 0)
GUI_SelectCC ==
    /\ program = "gui" /\ pc = "gui"
    /\ \E k \in 1..Len(CCBoxValues) :
        /\ ccbox' = CCBoxValues[k]
        /\ grid' = Switch_Frame_Grid(Flist1, CCBoxValues[k], 0, 0, grid)
        /\ labelOf' = Switch_Frame_Label(Flist1, CCBoxValues[k], "CCBox", labelOf)
    /\ UNCHANGED <<program, pc, log, raisedAt, errorKind, errorMsg, props, ret, ccVars,
                   awgVars, scbox, dialog, vendorCalls, callbackError, lastCall, refreshVars>>

\* <<ComboboxSelected>> on SCBox (line 88): Switch_Frame(Flist2, SCBox, 1, 0)
GUI_SelectSC ==
    /\ program = "gui" /\ pc = "gui"
    /\ \E k \in 1..Len(SCBoxValues) :
        /\ scbox' = SCBoxValues[k]
        /\ grid' = Switch_Frame_Grid(Flist2, SCBoxValues[k], 1, 0, grid)
        /\ labelOf' = Switch_Frame_Label(Flist2, SCBoxValues[k], "SCBox", labelOf)
    /\ UNCHANGED <<program, pc, log, raisedAt, errorKind, errorMsg, props, ret, ccVars,
                   awgVars, ccbox, dialog, vendorCalls, callbackError, lastCall, refreshVars>>

\* lines 10-26, 28, 55-56, 168, 181: the names bound at module level
ModuleNames ==
    {"tk", "ttk", "filedialog", "SP", "backend", "Path", "utils", "Save_Zi", "os",
     "LARGE_FONT", "NORM_FONT", "SMALL_FONT", "White_Light_Inteferometer",
     "width", "height", "Refresh", "app"}

\* lines 125-127 / 145-147: the names local to Save_Setting / Load_Setting
SettingLocals(inner) == {"self", "Folder", "PI_Data", "ZI_Data", inner}

\* truth value of a device handle: None is false, a handle is true
Truthy(v) == v # None

\* lines 133 / 153:  PI_Data or ZI_Data is None  parses as  PI_Data or (ZI_Data is None)
DeviceTest(PI_Data, ZI_Data) == Truthy(PI_Data) \/ (ZI_Data = None)

\* what a call leaves behind: the dialog shown, the vendor calls made, the
\* exception that ended it
Outcome(d, calls, err) == [dialog |-> d, calls |-> calls, error |-> err]

\* messabox.showinfo(...): a NameError where messabox is not bound
ShowInfo(names, title, calls) ==
    IF "messabox" \in names
    THEN Outcome(title, calls, "none")
    ELSE Outcome("none", calls, "NameError")

\* lines 127-130 / 147-150: the inner Save / Load, one call of the vendor utility
VendorCall(fn, Dir, ZI_Data) ==
    [fn |-> fn, daq |-> ZI_Data.DAQ, device |-> ZI_Data.Device_id,
     path |-> <<Dir, "os.sep", "_zi_settings.xml">>]

\* lines 133-143 / 153-163: the body of Save_Setting (fn = "save_settings",
\* inner = "Save") and of Load_Setting (fn = "load_settings", inner = "Load")
SettingBody(fn, inner, Folder, PI_Data, ZI_Data) ==
    LET names == ModuleNames \cup SettingLocals(inner)
    IN IF DeviceTest(PI_Data, ZI_Data)
       THEN ShowInfo(names, "WARNING", <<>>)
       ELSE IF "Dir" \notin names
       THEN Outcome("none", <<>>, "NameError")
       ELSE IF Folder = ""
       THEN ShowInfo(names, "WARNING", <<>>)
       ELSE ShowInfo(names, "Information", <<VendorCall(fn, Folder, ZI_Data)>>)

\* values a device handle and the directory variable can hold
PIHandles == {None, [Devices |-> "C-863"]}
ZIHandles == {None, [DAQ |-> "daq", Device_id |-> "dev2006"]}
Folders == {"", "/home/lab/run1"}

ApplySetting(fn, inner, Folder, PI_Data, ZI_Data) ==
    LET out == SettingBody(fn, inner, Folder, PI_Data, ZI_Data)
    IN /\ dialog' = out.dialog
       /\ vendorCalls' = vendorCalls \o out.calls
       /\ callbackError' = out.error
       /\ lastCall' = [fn |-> fn, Folder |-> Folder, PI_Data |-> PI_Data,
                       ZI_Data |-> ZI_Data, calls |-> out.calls]

\* lines 125-143: Save_Setting(Folder, PI_Data, ZI_Data), for every argument
GUI_Save_Setting ==
    /\ program = "gui" /\ pc = "gui"
    /\ \E Folder \in Folders, PI_Data \in PIHandles, ZI_Data \in ZIHandles :
        ApplySetting("save_settings", "Save", Folder, PI_Data, ZI_Data)
    /\ UNCHANGED <<program, pc, log, raisedAt, errorKind, errorMsg, props, ret, ccVars,
                   awgVars, ccbox, scbox, grid, labelOf, refreshVars>>

\* lines 145-163: Load_Setting(Folder, PI_Data, ZI_Data), for every argument
GUI_Load_Setting ==
    /\ program = "gui" /\ pc = "gui"
    /\ \E Folder \in Folders, PI_Data \in PIHandles, ZI_Data \in ZIHandles :
        ApplySetting("load_settings", "Load", Folder, PI_Data, ZI_Data)
    /\ UNCHANGED <<program, pc, log, raisedAt, errorKind, errorMsg, props, ret, ccVars,
                   awgVars, ccbox, scbox, grid, labelOf, refreshVars>>

\* lines 101-118: the four file buttons are bound to lambdas that take no
\* argument; Tk calls a binding with the event, so a press ends in a TypeError
\* before the bound method is entered
GUI_PressFileButton ==
    /\ program = "gui" /\ pc = "gui"
    /\ \E b \in {"Start", "OpBut", "SvBut", "Stop"} :
        /\ callbackError' = "TypeError"
        /\ lastCall' = [fn |-> b, Folder |-> "", PI_Data |-> None, ZI_Data |-> None,
                        calls |-> <<>>]
    /\ UNCHANGED <<program, pc, log, raisedAt, errorKind, errorMsg, props, ret, ccVars,
                   awgVars, ccbox, scbox, grid, labelOf, dialog, vendorCalls, refreshVars>>

\* lines 34-35, 77-81: the attributes __init__ sets on the window, and the
\* panel each of the four panel attributes holds
AppAttributes ==
    [PI_Data |-> "none", Zi_Data |-> "none",
     ZiFrame |-> "ZI Module connection", frame |-> "PI Module Connection",
     PI_Control |-> "PI Module Settings", ZI_Control |-> "ZI Module Settings"]

\* lines 184-187: the names the lambda bound to a panel's CButton passes to Refresh
CButtonArgs(panel) ==
    IF panel = AppAttributes.frame
    THEN <<"app", "frame", "PI_Control">>
    ELSE <<"app", "ZiFrame", "ZI_Control">>

\* what the panels hold once connected: Devices_connected shown by
\* PI_Control.Show_device(), and ZI_Control.Zi_Setting_List
DiscoveredPI == [Devices |-> "C-863"]
DiscoveredZI == [DAQ |-> "daq", Device_id |-> "dev2006"]

\* what a dispatch leaves behind: the exception that ended it, the pending
\* Refresh timers, app.PI_Data and app.Zi_Data
RefreshOutcome(err, timers, pi, zi) ==
    [error |-> err, timers |-> timers, PI_Data |-> pi, Zi_Data |-> zi]

\* lines 168-179: Refresh(app, Frame, receiver).  attrs are the attributes of
\* app, flags the connected flag of each panel; the body reads app.Frame (an
\* attribute), never its parameter Frame.
Refresh(attrs, flags, timers, pi, zi) ==
    IF "Frame" \notin DOMAIN attrs
    THEN RefreshOutcome("AttributeError", timers, pi, zi)
    ELSE IF flags[attrs["Frame"]] = FALSE
    THEN RefreshOutcome("none", timers \cup {attrs["Frame"]}, pi, zi)
    ELSE IF attrs["Frame"] = attrs["frame"]
    THEN RefreshOutcome("none", timers, DiscoveredPI, zi)
    ELSE IF attrs["Frame"] = attrs["ZiFrame"]
    THEN RefreshOutcome("none", timers, pi, DiscoveredZI)
    ELSE RefreshOutcome("none", timers, pi, zi)

\* lines 184-187: lambda x : Refresh(app, frame, PI_Control) and
\* lambda x : Refresh(app, ZiFrame, ZI_Control): the argument names are looked
\* up among the module's names when the button is pressed
CButtonLambda(panel, names, attrs, flags, timers, pi, zi) ==
    IF \E k \in 1..Len(CButtonArgs(panel)) : CButtonArgs(panel)[k] \notin names
    THEN RefreshOutcome("NameError", timers, pi, zi)
    ELSE Refresh(attrs, flags, timers, pi, zi)

\* the events that run the Refresh callback: a press of a panel's CButton
\* (<Button-1>), or a timer set by app.after(1000, Refresh, ...) coming due
RefreshEvents ==
    [via : {"press"}, panel : Flist1] \cup [via : {"timer"}, panel : refreshTimers]

\* the main loop dispatches one of these events
GUI_DispatchRefresh ==
    /\ program = "gui" /\ pc = "gui"
    /\ \E ev \in RefreshEvents :
        LET timers == IF ev.via = "timer" THEN refreshTimers \ {ev.panel} ELSE refreshTimers
            out == IF ev.via = "press"
                   THEN CButtonLambda(ev.panel, ModuleNames, AppAttributes, connected,
                                      timers, appPI_Data, appZi_Data)
                   ELSE Refresh(AppAttributes, connected, timers, appPI_Data, appZi_Data)
        IN /\ refreshTimers' = out.timers
           /\ appPI_Data' = out.PI_Data
           /\ appZi_Data' = out.Zi_Data
           /\ callbackError' = out.error
           /\ lastRefresh' = [via |-> ev.via, panel |-> ev.panel, flag |-> connected[ev.panel],
                              scheduled |-> ev.panel \in out.timers,
                              PI_Data |-> out.PI_Data, Zi_Data |-> out.Zi_Data]
    /\ UNCHANGED <<program, pc, log, raisedAt, errorKind, errorMsg, props, ret, ccVars,
                   awgVars, ccbox, scbox, grid, labelOf, dialog, vendorCalls, lastCall,
                   connected>>

\* a connection panel's own handlers (Sub_Programs.WL_backend) set and clear
\* its connected flag
GUI_PanelSetsConnected ==
    /\ program = "gui" /\ pc = "gui"
    /\ \E p \in Flist1 : connected' = [connected EXCEPT ![p] = ~connected[p]]
    /\ UNCHANGED <<program, pc, log, raisedAt, errorKind, errorMsg, props, ret, ccVars,
                   awgVars, ccbox, scbox, grid, labelOf, dialog, vendorCalls, callbackError,
                   lastCall, refreshTimers, appPI_Data, appZi_Data, lastRefresh>>

NextGUI ==
    \/ GUI_DispatchRefresh
    \/ GUI_PanelSetsConnected
    \/ GUI_SelectCC
    \/ GUI_SelectSC
    \/ GUI_Save_Setting
    \/ GUI_Load_Setting
    \/ GUI_PressFileButton

(***************************************************************************)
(* Specification                                                           *)
(***************************************************************************)
Programs == {"connect_config", "awg", "gui"}

StartPc(p) ==
    CASE p = "connect_config" -> "cc_create_session"
      [] p = "awg" -> "awg_create_session"
      [] OTHER -> "gui"

Init ==
    /\ program \in Programs
    /\ pc = StartPc(program)
    /\ log = <<>>
    /\ raisedAt = "none"
    /\ errorKind = "none"
    /\ errorMsg = ""
    /\ props = None
    /\ amplitude \in {100, 250}
    /\ devSample = None
    /\ sample = None
    /\ ret = "none"
    /\ compilerStatus = -1
    /\ statusString = ""
    /\ statusChanges = 0
    /\ readAt = [loop |-> {}, fail |-> {}, succ |-> {}, warn |-> {}]
    /\ stdout = <<>>
    /\ uploadI = 0
    /\ local_timeout = 0
    /\ scopeIters = 0
    /\ scopeProgress = 0
    /\ dataRead = None
    /\ coeff = None
    /\ uploadProgress = 0
    /\ epochAt = [loop |-> 0, fail |-> 0, succ |-> 0, warn |-> 0]
    \* lines 69, 74, 90, 91: both boxes at their first value, Switch_Frame run on each
    /\ ccbox = CCBoxValues[1]
    /\ scbox = SCBoxValues[1]
    /\ grid = Switch_Frame_Grid(Flist2, SCBoxValues[1], 1, 0,
                                Switch_Frame_Grid(Flist1, CCBoxValues[1], 0, 0, NoGrid))
    /\ labelOf = Switch_Frame_Label(Flist2, SCBoxValues[1], "SCBox",
                                    Switch_Frame_Label(Flist1, CCBoxValues[1], "CCBox", NoLabels))
    /\ dialog = "none"
    /\ vendorCalls = <<>>
    /\ callbackError = "none"
    /\ lastCall = None
    \* the panels start unconnected; lines 34-35: self.PI_Data = None, self.Zi_Data = None
    /\ connected = [p \in Flist1 |-> FALSE]
    /\ refreshTimers = {}
    /\ appPI_Data = None
    /\ appZi_Data = None
    /\ lastRefresh = None

Next == NextCC \/ NextAWG \/ NextGUI

Spec == Init /\ [][Next]_vars

\* one program at a time
InitCC == Init /\ program = "connect_config"
SpecCC == InitCC /\ [][NextCC]_vars

InitAWG == Init /\ program = "awg"
SpecAWG == InitAWG /\ [][NextAWG]_vars

InitGUI == Init /\ program = "gui"
SpecGUI == InitGUI /\ [][NextGUI]_vars

(***************************************************************************)
(* Properties                                                              *)
(***************************************************************************)
\* the steps of the AWG example, in program order
AwgSteps ==
    <<"awg_create_session", "awg_base_config", "awg_exp_config", "awg_module_setup",
      "awg_submit", "awg_compile_wait", "awg_failure_test", "awg_success_test",
      "awg_warning_test", "awg_upload_wait", "awg_replace_waveform",
      "awg_configure_scope", "awg_scope_module", "awg_start_awg", "awg_start_scope",
      "awg_release_trigger", "awg_scope_wait", "awg_disable_scope", "awg_read_scope",
      "awg_correlate", "awg_check_correlation", "returned">>

StepIndex(step) == CHOOSE k \in 1..Len(AwgSteps) : AwgSteps[k] = step

\* the step the AWG example is at, or was at when it raised
AwgPosition == IF pc = "raised" THEN raisedAt ELSE pc

\* the AWG example has left `step` behind without raising in it
AwgPast(step) ==
    /\ program = "awg"
    /\ StepIndex(AwgPosition) > StepIndex(step)

Ops(l) == [k \in 1..Len(l) |-> l[k].op]

ScopeRead == Module("scopeModule", "read", "True")
SubmitCall == Module("awgModule", "set", "awgModule/compiler/sourcestring")

\* C1: Save_Setting and Load_Setting, called with an absent PI handle, an
\* absent ZI handle or an empty directory, show the warning dialog and make
\* no vendor save_settings/load_settings call.
C1_RefusesWithWarning ==
    (/\ lastCall # None
     /\ lastCall.fn \in {"save_settings", "load_settings"}
     /\ (lastCall.PI_Data = None \/ lastCall.ZI_Data = None \/ lastCall.Folder = ""))
    => (dialog = "WARNING" /\ lastCall.calls = <<>>)

\* C2: the compilation wait loop is left only by a poll that read a status
\* other than -1, and the script is still in the loop as long as its polls
\* read -1: every step after the loop runs after the loop's last poll read a
\* value other than -1.
C2_CompileWaitLeavesOnlyOnFinalStatus ==
    program = "awg" =>
        /\ AwgPast("awg_compile_wait") => (readAt.loop # {} /\ -1 \notin readAt.loop)
        /\ pc = "awg_compile_wait" => readAt.loop \subseteq {-1}
        /\ readAt.loop = {-1} => pc = "awg_compile_wait"

C2_Witness ==
    /\ program = "awg" /\ pc = "awg_failure_test"
    /\ readAt.loop = {2} /\ statusChanges = 2

\* C3: the failure test reading status 1 raises an Exception whose message is
\* the compiler's status string, and nothing after the submission has run;
\* reading any other status the script goes on to the upload wait; the warning
\* test reading 2 prints the compiler's status string, and only then.
C3_BranchOnCompilerStatus ==
    program = "awg" =>
        /\ raisedAt = "awg_failure_test" =>
              /\ readAt.fail = {1}
              /\ errorKind = "Exception" /\ errorMsg = statusString
              /\ log # <<>> /\ log[Len(log)] = SubmitCall
              /\ stdout = <<>> /\ uploadI = 0 /\ ret = "none"
        /\ (readAt.fail # {} /\ readAt.fail # {1}) =>
              /\ raisedAt # "awg_failure_test"
              /\ AwgPast("awg_failure_test")
        /\ readAt.warn # {} => AwgPast("awg_warning_test")
        /\ pc = "awg_upload_wait" => (readAt.fail # {} /\ 1 \notin readAt.fail)
        /\ readAt.warn = {2} =>
              /\ Len(stdout) >= 3
              /\ SubSeq(stdout, Len(stdout) - 2, Len(stdout))
                   = <<"Compilation successful with warnings", "Compiler warning: ",
                       statusString>>
        /\ readAt.warn # {2} => \A k \in 1..Len(stdout) : stdout[k] # "Compiler warning: "

C3_Witness ==
    /\ program = "awg" /\ raisedAt = "awg_failure_test"
    /\ errorMsg = "line 7: syntax error"

C5_SampleReadAfterSyncedConfig ==
    program = "connect_config" =>
        /\ pc = "cc_get_sample" => Ops(log) = <<"write", "sync", "write", "sleep", "sync">>
        /\ (\E k \in 1..Len(log) : log[k].op = "getSample") =>
              /\ Ops(log) = <<"write", "sync", "write", "sleep", "sync", "getSample">>
              /\ log[1] = Write(CC_GeneralSetting(props))
              /\ log[3] = Write(CC_ExpSetting(props, amplitude))

C5_Witness ==
    /\ program = "connect_config" /\ pc = "returned"
    /\ props.ia /\ props.hf2 /\ log[Len(log)].op = "getSample"

\* C6: in the AWG example every write on the device issued before
\* scopeModule.read is followed by a daq.sync() before that read.
C6_EveryWriteSyncedBeforeScopeRead ==
    \A k \in 1..Len(log) :
        log[k] = ScopeRead =>
            \A j \in 1..(k-1) :
                log[j].op = "write" => \E m \in (j+1)..(k-1) : log[m].op = "sync"

\* C7: when create_api_session raises, in either example, the script is over:
\* nothing was written, no sync issued, nothing read or returned, and no
\* further step can be taken.
C7_SessionFailureEndsScript ==
    raisedAt \in {"cc_create_session", "awg_create_session"} =>
        /\ pc = "raised"
        /\ errorKind \in {"RuntimeError", "Exception"}
        /\ log = <<>>
        /\ sample = None /\ devSample = None /\ dataRead = None /\ ret = "none"
        /\ ~ENABLED Next

C7_Witness ==
    /\ program = "awg" /\ raisedAt = "awg_create_session"
    /\ errorKind = "Exception" /\ errorMsg = AWG_ErrMsg

\* C8 as stated: the AWG example returns the captured data if and only if the
\* coefficient is at least 0.95, and otherwise ends in an assertion failure.
C8_ReturnsIffAtLeastThreshold ==
    (program = "awg" /\ pc \in {"returned", "raised"} /\ coeff # None) =>
        /\ (ret = "data_read") <=> (~coeff.nan /\ coeff.val >= CorrThreshold)
        /\ (ret = "none") => (raisedAt = "awg_check_correlation" /\ errorKind = "AssertionError")

\* C8 as amended: a run that reaches the check returns the captured data if and
\* only if the coefficient is strictly greater than 0.95; at 0.95, below it, or
\* for NaN it ends in an assertion failure and returns nothing.
C8_ReturnsIffAboveThreshold ==
    program = "awg" =>
        /\ (pc \in {"returned", "raised"} /\ coeff # None) =>
              /\ (ret = "data_read") <=> (~coeff.nan /\ coeff.val > CorrThreshold)
              /\ (ret = "none") =>
                    (raisedAt = "awg_check_correlation" /\ errorKind = "AssertionError")
        /\ ret # "none" => (pc = "returned" /\ coeff # None /\ raisedAt = "none")

C8_Witness ==
    /\ program = "awg" /\ raisedAt = "awg_check_correlation"
    /\ ~coeff.nan /\ coeff.val = CorrThreshold /\ ret = "none"

\* d is the direction of the angle of the point (x, y): parallel to (x, y),
\* pointing the same way, primitive; the angle of (0, 0) is 0
IsAngleOf(d, y, x) ==
    IF x = 0 /\ y = 0 THEN d = <<0, 1>>
    ELSE /\ d[1] * x = d[2] * y
         /\ d[1] * y >= 0 /\ d[2] * x >= 0
         /\ Gcd(AbsInt(d[1]), AbsInt(d[2])) = 1

\* C9: the returned sample holds x and y as getSample gave them, R with
\* R^2 = x^2 + y^2 (R >= 0) and phi the angle atan2(y, x).
C9_DerivedMagnitudeAndPhase ==
    (program = "connect_config" /\ pc = "returned") =>
        /\ ret = "sample"
        /\ DOMAIN sample = {"x", "y", "R", "phi"}
        /\ sample.x = devSample.x /\ sample.y = devSample.y
        /\ sample.R = [sq |-> devSample.x * devSample.x + devSample.y * devSample.y]
        /\ IsAngleOf(sample.phi, devSample.y, devSample.x)

C9_Witness ==
    /\ program = "connect_config" /\ pc = "returned"
    /\ devSample = [x |-> -1, y |-> 2] /\ sample.phi = <<2, -1>>

ShownIn(lst) == {p \in lst : grid[p] # Hidden}

\* C10: in every state of the window exactly one connection panel and exactly
\* one settings panel is gridded, the one its combobox names; a step that
\* leaves a combobox alone leaves the shown panel of its group alone.
C10_OnePanelPerGroup ==
    /\ [](ShownIn(Flist1) = {ccbox} /\ ShownIn(Flist2) = {scbox})
    /\ [][/\ scbox' = scbox => ShownIn(Flist2)' = ShownIn(Flist2)
          /\ ccbox' = ccbox => ShownIn(Flist1)' = ShownIn(Flist1)]_vars

C10_Witness ==
    /\ program = "gui"
    /\ ccbox = CCBoxValues[2] /\ scbox = SCBoxValues[1]
    /\ grid["ZI Module connection"] = <<0, 0>> /\ grid["PI Module Settings"] = <<1, 0>>

\* C13: once the compilation did not fail, the upload wait loop is left only by
\* a poll that read a progress of at least 1.0; a poll that read less stays in
\* the loop, however many polls came before it (there is no timeout), so the
\* script is past the loop only with a progress of 1.0 read.
C13_UploadWaitLeavesOnlyOnCompletion ==
    /\ [](program = "awg" =>
            /\ AwgPast("awg_upload_wait") => uploadProgress >= 100
            /\ pc = "awg_upload_wait" => (readAt.fail # {} /\ 1 \notin readAt.fail))
    /\ [][(program = "awg" /\ pc = "awg_upload_wait") =>
            /\ uploadProgress' < 100 => (pc' = "awg_upload_wait" /\ log' = log)
            /\ uploadProgress' >= 100 => pc' = "awg_replace_waveform"]_vars

C13_Witness ==
    /\ program = "awg" /\ pc = "awg_upload_wait"
    /\ uploadI = MaxUploadPolls /\ uploadProgress = 50

\* C15: whether the script raised in the failure test or went on to the upload
\* agrees with the status value that ended the wait loop, also when the data
\* server changed the status between the two queries.
C15_BranchAgreesWithLoopExitStatus ==
    (program = "awg" /\ readAt.fail # {}) =>
        (raisedAt = "awg_failure_test" <=> readAt.loop = {1})

C15_Witness ==
    /\ program = "awg" /\ raisedAt = "awg_failure_test"
    /\ readAt.loop = {0} /\ readAt.fail = {1} /\ epochAt.fail = epochAt.loop + 1

\* the first place at or after k of event e in the log l, 0 when there is none
RECURSIVE FirstFrom(_, _, _)
FirstFrom(e, l, k) ==
    IF k > Len(l) THEN 0
    ELSE IF l[k] = e THEN k ELSE FirstFrom(e, l, k + 1)

\* the first place of event e in the log l, 0 when it is not there
FirstPos(e, l) == FirstFrom(e, l, 1)

\* the steps between the upload and the release of the trigger, in order
CaptureSteps ==
    << Write(<< <<"awgs/0/waveform/index", 2>> >>),
       Write(<< <<"awgs/0/waveform/data", 0>> >>),
       Module("scopeModule", "subscribe", "scopes/0/wave"),
       Module("scopeModule", "execute", ""),
       Write(<< <<"awgs/0/single", 1>>, <<"awgs/0/enable", 1>> >>),
       Write(<< <<"scopes/0/enable", 1>> >>),
       Write(<< <<"awgs/0/userregs/0", 1>> >>) >>

\* the steps of CaptureSteps that the script follows by a sync
SyncedSteps == {CaptureSteps[1], CaptureSteps[5], CaptureSteps[6]}

\* the values written to the scope's enable node in l[1..n], in order
RECURSIVE ScopeEnableWrites(_, _)
ScopeEnableWrites(l, n) ==
    IF n = 0 THEN <<>>
    ELSE LET e == l[n]
         IN  IF e.op = "write" /\ Len(e.args) = 1 /\ e.args[1][1] = "scopes/0/enable"
             THEN Append(ScopeEnableWrites(l, n - 1), e.args[1][2])
             ELSE ScopeEnableWrites(l, n - 1)

\* C14: the log only grows, and a step that appends one of the steps between
\* upload and trigger release appends it for the first time, with the upload
\* completed and with all the steps before it already in the log, in order
\* (slot index set and synced, slot overwritten, scope module subscribed and
\* executed, AWG enabled in single-shot mode and synced, scope enabled and
\* synced, user register 0 set to 1); when the trigger is released the last
\* value written to the scope's enable node is 1, and the script goes on to the
\* capture only by releasing the trigger.
C14_CaptureStepsInOrder ==
    [][program = "awg" =>
        /\ Len(log') >= Len(log) /\ SubSeq(log', 1, Len(log)) = log
        /\ (pc = "awg_release_trigger" /\ pc' = "awg_scope_wait") =>
              log'[Len(log')] = CaptureSteps[Len(CaptureSteps)]
        /\ \A new \in {SubSeq(log', Len(log) + 1, Len(log'))} :
              \A j \in 1..Len(CaptureSteps) :
                  FirstPos(CaptureSteps[j], new) > 0 =>
                      \A pos \in {[i \in 1..j |-> FirstPos(CaptureSteps[i], log')]} :
                          /\ pos[j] > Len(log)
                          /\ uploadProgress >= 100
                          /\ \A i \in 1..(j - 1) :
                                /\ pos[i] > 0 /\ pos[i] < pos[j]
                                /\ CaptureSteps[i] \in SyncedSteps =>
                                      (log'[pos[i] + 1] = Sync /\ pos[i] + 1 < pos[j])
                          /\ j = Len(CaptureSteps) =>
                                \A w \in {ScopeEnableWrites(log', pos[j])} :
                                    w # <<>> /\ w[Len(w)] = 1]_vars

C14_Witness ==
    /\ program = "awg" /\ pc = "awg_scope_wait"
    /\ log[Len(log)] = Write(<< <<"awgs/0/userregs/0", 1>> >>)
    /\ ScopeEnableWrites(log, Len(log)) = <<0, 1>>
    /\ uploadProgress = 100

\* C11: a dispatch of the Refresh callback that finds the panel's connected
\* flag False leaves a Refresh pending for the panel and changes no device
\* data; one that finds it True copies the discovered data to the side of its
\* panel (PI panel to PI_Data, ZI panel to Zi_Data) and leaves no Refresh
\* pending; device data is set only after a dispatch that found the flag True.
C11_RefreshPollsThenCopies ==
    (program = "gui" /\ lastRefresh # None) =>
        /\ ~lastRefresh.flag =>
              /\ lastRefresh.scheduled
              /\ lastRefresh.PI_Data = None /\ lastRefresh.Zi_Data = None
        /\ lastRefresh.flag =>
              /\ ~lastRefresh.scheduled
              /\ lastRefresh.panel = AppAttributes.frame => lastRefresh.PI_Data = DiscoveredPI
              /\ lastRefresh.panel = AppAttributes.ZiFrame => lastRefresh.Zi_Data = DiscoveredZI

\* a press of the PI panel's button with the flag False ends in a NameError:
\* nothing is pending afterwards
C11_Witness ==
    /\ program = "gui" /\ lastRefresh # None
    /\ lastRefresh.via = "press" /\ lastRefresh.panel = AppAttributes.frame
    /\ ~lastRefresh.flag /\ ~lastRefresh.scheduled
    /\ callbackError = "NameError" /\ refreshTimers = {}

\* C12: Save_Setting / Load_Setting called with both device handles present
\* and a non-empty directory makes exactly one vendor call, save_settings /
\* load_settings, with the ZI session, the ZI device id and the path directory +
\* separator + "_zi_settings.xml", and shows the information dialog.
C12_OneVendorCallThenInformation ==
    (/\ program = "gui" /\ lastCall # None
     /\ lastCall.fn \in {"save_settings", "load_settings"}
     /\ lastCall.PI_Data # None /\ lastCall.ZI_Data # None /\ lastCall.Folder # "")
    => /\ lastCall.calls = <<VendorCall(lastCall.fn, lastCall.Folder, lastCall.ZI_Data)>>
       /\ dialog = "Information"

\* such a call makes no vendor call and ends in a NameError
C12_Witness ==
    /\ program = "gui" /\ lastCall # None
    /\ lastCall.fn = "load_settings"
    /\ lastCall.PI_Data # None /\ lastCall.ZI_Data # None /\ lastCall.Folder # ""
    /\ lastCall.calls = <<>> /\ vendorCalls = <<>> /\ callbackError = "NameError"
====
